---- MODULE Spec2Model ----
(***************************************************************************)
(* A model of ct-ext-search: the DER extension extractor (cert_ext.rs),    *)
(* the CT binary decoders, the ranged downloader dl_range, the RocksDB     *)
(* entry cache and the Dl / Filter / Scan subcommands (main.rs).           *)
(*                                                                         *)
(* Byte buffers are sequences of 0..255.  A reader over a buffer is the    *)
(* pair (buf, pos): pos bytes have been consumed, the next byte is         *)
(* buf[pos+1].  Every read returns a record with ok, the new pos and the   *)
(* value read; a failed read keeps the pos it stopped at, because yasna's  *)
(* read_optional tells "absent" from "malformed" by that position.         *)
(***************************************************************************)
EXTENDS Integers, Sequences, FiniteSets, TLC

VARIABLES
    \* SpecExt: one run of the extension extractor
    ext_pc, ext_in, cert_der, ext_res,
    \* SpecChain: one run of a chain decoder
    chain_pc, chain_in, chain_buf, chain_res,
    \* dl_range: its arguments, its locals, and what it did so far; and
    \* whether the build checks integer overflow
    dl_pc, dl_err, op_start, op_end, start, smallest_size, requests, batches,
    overflow_checks,
    \* the subcommand that runs, the log the server holds, the RocksDB
    \* database, and for every index the raw pair Dl stored there last
    cmd, log, db_exists, db, stored,
    \* Filter: its arguments, its loop variable, what it read and printed
    f_pc, f_err, f_start, f_end, id, f_reads, f_raw, f_out,
    \* Scan: the indices of the entries it printed a match for
    s_out,
    \* SpecMatch: the range given to Dl, Filter and Scan, and how far the
    \* three runs have come
    phase, m_start, m_end, m_dl

extVars == <<ext_pc, ext_in, cert_der, ext_res>>

chainVars == <<chain_pc, chain_in, chain_buf, chain_res>>

dlVars ==
    <<dl_pc, dl_err, op_start, op_end, start, smallest_size, requests, batches,
      overflow_checks>>

filterVars == <<f_pc, f_err, f_start, f_end, id, f_reads, f_raw, f_out>>

matchVars == <<phase, m_start, m_end, m_dl>>

cacheVars == <<db_exists, db, stored>>

pipeVars == <<cmd, log, cacheVars, filterVars, s_out, matchVars>>

vars == <<extVars, chainVars, dlVars, pipeVars>>

(***************************************************************************)
(* Sequence helpers                                                        *)
(***************************************************************************)
Slice(buf, from, to) == [i \in 1..(to - from) |-> buf[from + i]]

(***************************************************************************)
(* Results.  A read gives a record with ok; Bind(r, K) is Rust's `?`: the  *)
(* failure r is returned as it is, a success is handed on to K.            *)
(***************************************************************************)
Failure(kind, pos) == [ok |-> FALSE, err |-> kind, pos |-> pos]

Bind(r, K(_)) == IF r.ok THEN K(r) ELSE r

(***************************************************************************)
(* yasna: identifier and length octets, tags                               *)
(***************************************************************************)
\* The tag classes, in the order of the identifier octet's two top bits.
TAG_CLASSES == <<"Universal", "Application", "ContextSpecific", "Private">>

Tag(class, number) == [tag_class |-> class, tag_number |-> number]

TAG_BOOLEAN == Tag("Universal", 1)
TAG_OCTETSTRING == Tag("Universal", 4)
TAG_OID == Tag("Universal", 6)
TAG_SEQUENCE == Tag("Universal", 16)

\* BERReader::lookahead_tag: the next identifier octet, nothing consumed.
\* Tag numbers above 30 (the multi-octet form) do not occur in the inputs.
LookaheadTag(buf, pos, lim) ==
    IF pos >= lim THEN Failure("Eof", pos)
    ELSE IF buf[pos + 1] % 32 = 31 THEN Failure("Invalid", pos)
    ELSE [ok |-> TRUE, pos |-> pos,
          tag |-> Tag(TAG_CLASSES[(buf[pos + 1] \div 64) + 1], buf[pos + 1] % 32),
          constructed |-> ((buf[pos + 1] \div 32) % 2 = 1)]

\* read_identifier then read_length: the header of the element at pos.
\* Only the short definite form of the length (one octet below 128) occurs
\* in the inputs; DER forbids the indefinite form (octet 128).
ReadHeader(buf, pos, lim) ==
    Bind(LookaheadTag(buf, pos, lim), LAMBDA t :
        IF pos + 1 >= lim THEN Failure("Eof", pos + 1)
        ELSE IF buf[pos + 2] >= 128 THEN Failure("Invalid", pos + 2)
        ELSE IF pos + 2 + buf[pos + 2] > lim THEN Failure("Eof", pos + 2)
        ELSE [ok |-> TRUE, pos |-> pos + 2, lim |-> pos + 2 + buf[pos + 2],
              tag |-> t.tag, constructed |-> t.constructed])

\* BERReader::read_der: skip one whole element, whatever its tag; the
\* contents of a definite-length element are not looked at.
ReadDer(buf, pos, lim) ==
    Bind(ReadHeader(buf, pos, lim), LAMBDA h :
        [ok |-> TRUE, pos |-> h.lim, from |-> pos])

\* read_general with an expected tag: on another tag the position is put
\* back and the read fails with Invalid.
ReadGeneral(buf, pos, lim, tag) ==
    Bind(LookaheadTag(buf, pos, lim), LAMBDA t :
        IF t.tag # tag THEN Failure("Invalid", pos)
        ELSE ReadHeader(buf, pos, lim))

\* The contents of read_sequence and read_tagged must be constructed.
ReadConstructed(buf, pos, lim, tag) ==
    Bind(ReadGeneral(buf, pos, lim, tag), LAMBDA h :
        IF ~h.constructed THEN Failure("Invalid", h.pos) ELSE h)

\* The contents of read_oid and (in DER) read_bytes must be primitive.
ReadPrimitive(buf, pos, lim, tag) ==
    Bind(ReadGeneral(buf, pos, lim, tag), LAMBDA h :
        IF h.constructed THEN Failure("Invalid", h.pos) ELSE h)

\* What read_general checks when its callback returned: the contents were
\* read to their end, or the error is Extra.
EndOfContents(r, lim) ==
    Bind(r, LAMBDA x : IF x.pos # lim THEN Failure("Extra", x.pos) ELSE x)

\* BERReader::read_bytes: an OCTET STRING's contents.
ReadBytes(buf, pos, lim) ==
    Bind(ReadPrimitive(buf, pos, lim, TAG_OCTETSTRING), LAMBDA h :
        [ok |-> TRUE, pos |-> h.lim, bytes |-> Slice(buf, h.pos, h.lim)])

\* Base-128 subidentifiers of an OID's contents, high bit = continuation.
RECURSIVE SubIds(_, _, _, _, _)
SubIds(buf, pos, lim, cur, acc) ==
    IF pos >= lim THEN acc
    ELSE IF buf[pos + 1] >= 128
    THEN SubIds(buf, pos + 1, lim, cur * 128 + (buf[pos + 1] - 128), acc)
    ELSE SubIds(buf, pos + 1, lim, 0, Append(acc, cur * 128 + buf[pos + 1]))

\* The first subidentifier carries the first two arcs.
OidArcs(ids) ==
    (IF ids[1] < 40 THEN <<0, ids[1]>>
     ELSE IF ids[1] < 80 THEN <<1, ids[1] - 40>>
     ELSE <<2, ids[1] - 80>>) \o Tail(ids)

\* BERReader::read_oid
ReadOid(buf, pos, lim) ==
    Bind(ReadPrimitive(buf, pos, lim, TAG_OID), LAMBDA h :
        IF h.lim = h.pos \/ buf[h.lim] >= 128 THEN Failure("Invalid", h.lim)
        ELSE [ok |-> TRUE, pos |-> h.lim,
              oid |-> OidArcs(SubIds(buf, h.pos, h.lim, 0, <<>>))])

\* BERReaderSeq::read_optional: None, and the reader where it was, when the
\* closure failed without consuming a byte; none is that result.
ReadOptional(r, pos, none) ==
    IF r.ok THEN r ELSE IF r.pos = pos THEN none ELSE r

(***************************************************************************)
(* cert_ext.rs                                                             *)
(***************************************************************************)
\* critical, when the next tag is BOOLEAN, and then extnValue.
ReadExtensionValue(buf, pos, lim) ==
    Bind(LookaheadTag(buf, pos, lim), LAMBDA r :
        IF r.tag = TAG_BOOLEAN
        THEN Bind(ReadDer(buf, pos, lim), LAMBDA c : ReadBytes(buf, c.pos, lim))
        ELSE ReadBytes(buf, pos, lim))

\* The closure of parse_der(&ext, ..): one Extension SEQUENCE in
\* buf[from+1..to]; extnID is kept, critical and extnValue are skipped.
ReadExtension(buf, from, to) ==
    EndOfContents(
        Bind(ReadConstructed(buf, from, to, TAG_SEQUENCE), LAMBDA s :
            Bind(ReadOid(buf, s.pos, s.lim), LAMBDA o :
                Bind(EndOfContents(ReadExtensionValue(buf, o.pos, s.lim), s.lim),
                     LAMBDA v : [ok |-> TRUE, pos |-> s.lim, oid |-> o.oid]))),
        to)

\* while let Some(_) = rdr.read_optional(..)? {}: the closure reads one
\* element with read_der and parses it; None ends the loop.
RECURSIVE ReadExtensionList(_, _, _, _)
ReadExtensionList(buf, pos, lim, oids) ==
    Bind(ReadOptional(
            Bind(ReadDer(buf, pos, lim), LAMBDA d :
                Bind(ReadExtension(buf, d.from, d.pos), LAMBDA e :
                    [ok |-> TRUE, pos |-> d.pos, some |-> TRUE, oid |-> e.oid])),
            pos, [ok |-> TRUE, pos |-> pos, some |-> FALSE]),
         LAMBDA x :
            IF x.some THEN ReadExtensionList(buf, x.pos, lim, Append(oids, x.oid))
            ELSE [ok |-> TRUE, pos |-> pos, oids |-> oids])

\* rdr.read_tagged(Tag::context(3), |rdr| rdr.read_sequence(..))
ReadExtensionsWrapper(buf, pos, lim) ==
    Bind(ReadConstructed(buf, pos, lim, Tag("ContextSpecific", 3)), LAMBDA w :
        EndOfContents(
            Bind(ReadConstructed(buf, w.pos, w.lim, TAG_SEQUENCE), LAMBDA s :
                EndOfContents(ReadExtensionList(buf, s.pos, s.lim, <<>>), s.lim)),
            w.lim))

\* The closure of the rdr.read_optional(..) after subjectPublicKeyInfo:
\* the wrapper is read only when the next tag NUMBER is 3; any other
\* element is left in place, unread.
ReadExtensionsIfTagged(buf, pos, lim) ==
    Bind(LookaheadTag(buf, pos, lim), LAMBDA t :
        IF t.tag.tag_number = 3 THEN ReadExtensionsWrapper(buf, pos, lim)
        ELSE [ok |-> TRUE, pos |-> pos, oids |-> <<>>])

ReadOptionalExtensions(buf, pos, lim) ==
    ReadOptional(ReadExtensionsIfTagged(buf, pos, lim), pos,
                 [ok |-> TRUE, pos |-> pos, oids |-> <<>>])

\* The leading rdr.next().read_der()? calls, n of them.
RECURSIVE SkipFields(_, _, _, _)
SkipFields(buf, pos, lim, n) ==
    IF n = 0 THEN [ok |-> TRUE, pos |-> pos]
    ELSE Bind(ReadDer(buf, pos, lim), LAMBDA d :
            SkipFields(buf, d.pos, lim, n - 1))

\* version, serial number, signature, issuer, validity, subject,
\* subjectPublicKeyInfo: read by position, one read_der each.
TbsLeadingFields == 7

push_cert_extensions(buf, pos, lim) ==
    Bind(ReadConstructed(buf, pos, lim, TAG_SEQUENCE), LAMBDA s :
        Bind(SkipFields(buf, s.pos, s.lim, TbsLeadingFields), LAMBDA f :
            EndOfContents(ReadOptionalExtensions(buf, f.pos, s.lim), s.lim)))

\* What the two entry points return, after parse_der checked that the
\* whole input was read: Ok(oids) or Err.
ExtResult(r, len) ==
    IF ~r.ok THEN [ok |-> FALSE, err |-> r.err, oids |-> <<>>]
    ELSE IF r.pos # len THEN [ok |-> FALSE, err |-> "Extra", oids |-> <<>>]
    ELSE [ok |-> TRUE, err |-> "", oids |-> r.oids]

list_pre_cert_extensions_der(der) ==
    ExtResult(push_cert_extensions(der, 0, Len(der)), Len(der))

\* signatureAlgorithm and signature after the TBS.
CertTrailingFields == 2

list_cert_extensions_der(der) ==
    ExtResult(
        Bind(ReadConstructed(der, 0, Len(der), TAG_SEQUENCE), LAMBDA s :
            Bind(push_cert_extensions(der, s.pos, s.lim), LAMBDA p :
                Bind(EndOfContents(SkipFields(der, p.pos, s.lim, CertTrailingFields),
                                   s.lim),
                     LAMBDA f : [ok |-> TRUE, pos |-> s.lim, oids |-> p.oids]))),
        Len(der))

(***************************************************************************)
(* Inputs of the extractor: DER encodings of RFC 5280 certificates         *)
(***************************************************************************)
TLV(ident, content) == <<ident, Len(content)>> \o content

RECURSIVE Base128(_, _)
Base128(n, last) ==
    LET b == <<(n % 128) + (IF last THEN 0 ELSE 128)>> IN
    IF n < 128 THEN b ELSE Base128(n \div 128, FALSE) \o b

RECURSIVE EncodeArcs(_)
EncodeArcs(arcs) ==
    IF arcs = <<>> THEN <<>>
    ELSE Base128(arcs[1], TRUE) \o EncodeArcs(Tail(arcs))

EncodeOid(oid) ==
    TLV(6, Base128(40 * oid[1] + oid[2], TRUE) \o EncodeArcs(SubSeq(oid, 3, Len(oid))))

OID_NAME_CONSTRAINTS == <<2, 5, 29, 30>>
OID_SUBJECT_ALT_NAME == <<2, 5, 29, 17>>
OID_CT_POISON == <<1, 3, 6, 1, 4, 1, 11129, 2, 4, 3>>

ExtensionOids == {OID_NAME_CONSTRAINTS, OID_SUBJECT_ALT_NAME, OID_CT_POISON}

\* Extension ::= SEQUENCE { extnID, critical BOOLEAN DEFAULT FALSE, extnValue }
EncodeExtension(e) ==
    TLV(48, EncodeOid(e.oid)
            \o (IF e.critical THEN <<1, 1, 255>> ELSE <<>>)
            \o TLV(4, <<>>))

RECURSIVE EncodeExtensions(_)
EncodeExtensions(exts) ==
    IF exts = <<>> THEN <<>>
    ELSE EncodeExtension(exts[1]) \o EncodeExtensions(Tail(exts))

\* TBSCertificate: version [0] (absent in a v1 certificate), serialNumber,
\* signature, issuer, validity, subject, subjectPublicKeyInfo,
\* issuerUniqueID [1], subjectUniqueID [2], extensions [3].
EncodeTbs(c) ==
    TLV(48, (IF c.version THEN TLV(160, <<2, 1, 2>>) ELSE <<>>)
            \o <<2, 1, 1>>
            \o TLV(48, <<>>) \o TLV(48, <<>>) \o TLV(48, <<>>)
            \o TLV(48, <<>>) \o TLV(48, <<>>)
            \o (IF c.issuerUniqueID THEN <<129, 1, 0>> ELSE <<>>)
            \o (IF c.subjectUniqueID THEN <<130, 1, 0>> ELSE <<>>)
            \o (IF c.wrapper THEN TLV(163, TLV(48, EncodeExtensions(c.exts)))
                ELSE <<>>))

\* Certificate ::= SEQUENCE { tbsCertificate, signatureAlgorithm, signature }
EncodeCert(c) == TLV(48, EncodeTbs(c) \o TLV(48, <<>>) \o <<3, 1, 0>>)

MaxExts == 2

ExtensionItems == [oid : ExtensionOids, critical : BOOLEAN]

ExtensionLists == UNION {[1..n -> ExtensionItems] : n \in 0..MaxExts}

\* Well-formed shapes: the unique IDs need version v2 or v3 and the
\* extensions v3, so a certificate without the version field has neither.
CertShapes ==
    {c \in [version : BOOLEAN, issuerUniqueID : BOOLEAN,
            subjectUniqueID : BOOLEAN, wrapper : BOOLEAN,
            exts : ExtensionLists] :
        /\ ~c.wrapper => c.exts = <<>>
        /\ ~c.version => ~(c.issuerUniqueID \/ c.subjectUniqueID \/ c.wrapper)}

ExtnIds(c) == [i \in 1..Len(c.exts) |-> c.exts[i].oid]

(***************************************************************************)
(* main.rs: the CT binary decoders.  A reader is a &[u8] cursor: a read    *)
(* past the end of the slice fails with UnexpectedEof.                     *)
(***************************************************************************)
\* ReadBytesExt::read_u8 / read_u16 / read_u64 (big-endian) and read_u24:
\* an unsigned integer of n bytes.
RECURSIVE BigEndian(_, _, _)
BigEndian(buf, pos, n) ==
    IF n = 0 THEN 0 ELSE 256 * BigEndian(buf, pos, n - 1) + buf[pos + n]

ReadUint(buf, pos, n) ==
    IF pos + n > Len(buf) THEN Failure("UnexpectedEof", pos)
    ELSE [ok |-> TRUE, pos |-> pos + n, val |-> BigEndian(buf, pos, n)]

read_u24(buf, pos) == ReadUint(buf, pos, 3)

\* Read::read_exact into vec![0; n]
ReadExact(buf, pos, n) ==
    IF pos + n > Len(buf) THEN Failure("UnexpectedEof", pos)
    ELSE [ok |-> TRUE, pos |-> pos + n, bytes |-> Slice(buf, pos, pos + n)]

\* A u24 length and that many bytes: (cert_len, cert_buf).
ReadU24Bytes(buf, pos) ==
    Bind(read_u24(buf, pos), LAMBDA l : ReadExact(buf, l.pos, l.val))

\* for _ in 0..chain_len { .. res.push(cert_buf) }
RECURSIVE ReadChainItems(_, _, _, _)
ReadChainItems(buf, pos, n, res) ==
    IF n = 0 THEN [ok |-> TRUE, pos |-> pos, chain |-> res]
    ELSE Bind(ReadU24Bytes(buf, pos), LAMBDA c :
            ReadChainItems(buf, c.pos, n - 1, Append(res, c.bytes)))

\* chain_len is the number of loop iterations, one item each.
read_certificate_chain(buf, pos) ==
    Bind(read_u24(buf, pos), LAMBDA chain_len :
        ReadChainItems(buf, chain_len.pos, chain_len.val, <<>>))

read_precert_chain_entry(buf) ==
    Bind(ReadU24Bytes(buf, 0), LAMBDA pre_cert_buf :
        Bind(read_certificate_chain(buf, pre_cert_buf.pos), LAMBDA c :
            [ok |-> TRUE, pos |-> c.pos, leaf |-> pre_cert_buf.bytes,
             chain |-> c.chain]))

\* LogEntryType: X509Entry, PrecertEntry, Other(v)
LogEntryType(v) ==
    IF v = 0 THEN "X509Entry" ELSE IF v = 1 THEN "PrecertEntry" ELSE "Other"

read_log_entry(buf) ==
    Bind(ReadUint(buf, 0, 2), LAMBDA entry_type :
        Bind(ReadU24Bytes(buf, entry_type.pos), LAMBDA pre_cert_buf :
            Bind(read_certificate_chain(buf, pre_cert_buf.pos), LAMBDA c :
                [ok |-> TRUE, pos |-> c.pos,
                 entry_type |-> LogEntryType(entry_type.val),
                 leaf |-> pre_cert_buf.bytes, chain |-> c.chain])))

(***************************************************************************)
(* Inputs of the chain decoders: RFC 6962 extra_data                       *)
(***************************************************************************)
U24(n) == <<n \div 65536, (n \div 256) % 256, n % 256>>

RECURSIVE EncodeChainItems(_)
EncodeChainItems(certs) ==
    IF certs = <<>> THEN <<>>
    ELSE U24(Len(certs[1])) \o certs[1] \o EncodeChainItems(Tail(certs))

\* A chain whose length prefix declares `declared`, followed by `trailing`.
EncodeChain(c) == U24(c.declared) \o EncodeChainItems(c.certs) \o c.trailing

MaxChain == 2
MaxDeclared == 9

ChainCerts == {<<>>, <<170>>, <<170, 187>>}

ChainShapes ==
    [certs : UNION {[1..n -> ChainCerts] : n \in 0..MaxChain},
     declared : 0..MaxDeclared,
     trailing : {<<>>, <<0>>}]

\* The chain is well formed when its prefix is the byte length of its items.
ChainWellFormed(c) == c.declared = Len(EncodeChainItems(c.certs))

PreCertDer == <<48, 0>>


(***************************************************************************)
(* main.rs: parse_timestamped_entry                                        *)
(***************************************************************************)
IssuerKeyHashLen == 32

\* The signed entry after entry_type: X509Entry(der), or
\* PrecertEntry(issuer_key_hash, der).
ReadSignedEntry(buf, pos, entry_type) ==
    IF entry_type = 0
    THEN Bind(ReadU24Bytes(buf, pos), LAMBDA der :
            [ok |-> TRUE, pos |-> der.pos, signed_entry |-> "X509Entry",
             der |-> der.bytes])
    ELSE IF entry_type = 1
    THEN Bind(ReadExact(buf, pos, IssuerKeyHashLen), LAMBDA issuer_key_hash :
            Bind(ReadU24Bytes(buf, issuer_key_hash.pos), LAMBDA der :
                [ok |-> TRUE, pos |-> der.pos, signed_entry |-> "PrecertEntry",
                 der |-> der.bytes]))
    ELSE Failure("InvalidEntryType", pos)

\* The timestamp is read as its eight bytes: no caller looks at it.
parse_timestamped_entry(buf) ==
    Bind(ReadUint(buf, 0, 1), LAMBDA version :
        IF version.val # 0 THEN Failure("InvalidVersion", version.pos)
        ELSE Bind(ReadUint(buf, version.pos, 1), LAMBDA leaf_type :
            IF leaf_type.val # 0 THEN Failure("InvalidLeafType", leaf_type.pos)
            ELSE Bind(ReadExact(buf, leaf_type.pos, 8), LAMBDA timestamp :
                Bind(ReadUint(buf, timestamp.pos, 2), LAMBDA entry_type :
                    ReadSignedEntry(buf, entry_type.pos, entry_type.val)))))

(***************************************************************************)
(* main.rs: the match predicate of Filter and Scan                         *)
(***************************************************************************)
INTERESTING_OIDS == {OID_NAME_CONSTRAINTS}

\* match &entry.signed_entry { X509Entry(der) => .., PrecertEntry(_, der) => .. }
EntryExtensions(entry) ==
    IF entry.signed_entry = "X509Entry"
    THEN list_cert_extensions_der(entry.der)
    ELSE list_pre_cert_extensions_der(entry.der)

\* for oid in oids { for ioid in INTERESTING_OIDS { if ioid == oid.. } }:
\* the number of "Match found" lines printed for one entry.
MatchLines(oids) == Cardinality({i \in DOMAIN oids : oids[i] \in INTERESTING_OIDS})

\* A match is printed once per matching OID, each line for index i.
MatchOutput(i, oids) == [k \in 1..MatchLines(oids) |-> [kind |-> "match", id |-> i]]

(***************************************************************************)
(* main.rs: the cache records of Dl and Filter                             *)
(***************************************************************************)
\* u64::to_be_bytes and write_u64::<BigEndian>
RECURSIVE ToBigEndian(_, _)
ToBigEndian(n, width) ==
    IF width = 0 THEN <<>>
    ELSE Append(ToBigEndian(n \div 256, width - 1), n % 256)

\* key.push(1); key.extend_from_slice(&id.to_be_bytes())
DbKeyNoIndex(i) == <<1>>

DbKey(i) == <<1>> \o ToBigEndian(i, 8)

\* db_value: u64 length, leaf_input, u64 length, extra_data
DbValue(leaf_input_raw, extra_data_raw) ==
    ToBigEndian(Len(leaf_input_raw), 8) \o leaf_input_raw
    \o ToBigEndian(Len(extra_data_raw), 8) \o extra_data_raw

\* db.put(&key, &db_value)
DbPut(d, key, value) ==
    [k \in DOMAIN d \cup {key} |-> IF k = key THEN value ELSE d[k]]

\* A u64 length and that many bytes.
ReadU64Bytes(buf, pos) ==
    Bind(ReadUint(buf, pos, 8), LAMBDA l : ReadExact(buf, l.pos, l.val))

\* Filter's decoding of db_value
DecodeDbValue(db_value) ==
    Bind(ReadU64Bytes(db_value, 0), LAMBDA leaf_input_raw :
        Bind(ReadU64Bytes(db_value, leaf_input_raw.pos), LAMBDA extra_data_raw :
            [ok |-> TRUE, pos |-> extra_data_raw.pos,
             leaf_input |-> leaf_input_raw.bytes,
             extra_data |-> extra_data_raw.bytes]))

\* base64::decode of a JSON string field.  A field of the log is the bytes
\* it is the base64 text of, or text that is not base64 at all.
Base64Decode(field) ==
    IF field.valid THEN [ok |-> TRUE, bytes |-> field.bytes]
    ELSE [ok |-> FALSE, err |-> "Base64", bytes |-> <<>>]

\* The two fields of an entry, decoded: Ok(the raw pair) or Err.
DecodeEntry(entry) ==
    Bind(Base64Decode(entry.leaf_input), LAMBDA leaf_input_raw :
        Bind(Base64Decode(entry.extra_data), LAMBDA extra_data_raw :
            [ok |-> TRUE, leaf_input |-> leaf_input_raw.bytes,
             extra_data |-> extra_data_raw.bytes]))

\* The sink of Dl: every entry of the batch is decoded and put, in order;
\* the first failure leaves the earlier entries of the batch stored.  st
\* keeps, for every index, the raw pair put there last.
RECURSIVE DlSink(_, _, _, _)
DlPut(d, st, i, entries, raw) ==
    IF ~raw.ok THEN [ok |-> FALSE, db |-> d, stored |-> st]
    ELSE DlSink(DbPut(d, DbKey(i), DbValue(raw.leaf_input, raw.extra_data)),
                [j \in DOMAIN st \cup {i} |->
                    IF j = i THEN [leaf_input |-> raw.leaf_input,
                                   extra_data |-> raw.extra_data]
                    ELSE st[j]],
                i + 1, Tail(entries))

DlSink(d, st, i, entries) ==
    IF entries = <<>> THEN [ok |-> TRUE, db |-> d, stored |-> st]
    ELSE DlPut(d, st, i, entries, DecodeEntry(entries[1]))

\* The extension OIDs of a leaf: parse_timestamped_entry, then the
\* extractor its entry type selects.
LeafExtensions(leaf_input) ==
    Bind(parse_timestamped_entry(leaf_input), LAMBDA e :
        Bind(EntryExtensions(e), LAMBDA x : [ok |-> TRUE, oids |-> x.oids]))

\* What Scan does with one entry: Ok(the entry's extension OIDs) or Err.
ScanEntry(entry) ==
    Bind(Base64Decode(entry.leaf_input), LAMBDA leaf_input_buf :
        LeafExtensions(leaf_input_buf.bytes))

\* The sink of Scan: the entries of the batch in order, stopping at the
\* first that fails; out is what was printed up to there.  ScanNext goes
\* on from the result e of the first entry.
RECURSIVE ScanSink(_, _, _)
ScanNext(out, i, entries, e) ==
    IF ~e.ok THEN [ok |-> FALSE, out |-> out]
    ELSE ScanSink(out \o MatchOutput(i, e.oids), i + 1, Tail(entries))

ScanSink(out, i, entries) ==
    IF entries = <<>> THEN [ok |-> TRUE, out |-> out]
    ELSE ScanNext(out, i, entries, ScanEntry(entries[1]))

\* What one iteration of Filter's loop does with the raw pair it decoded:
\* Ok(the entry's extension OIDs) or Err; the chain read_log_entry returns
\* is only printed.
FilterPair(v) ==
    Bind(LeafExtensions(v.leaf_input), LAMBDA x :
        Bind(read_log_entry(v.extra_data), LAMBDA log_entry :
            [ok |-> TRUE, oids |-> x.oids]))

\* The same from the value v decoded from the database, with the raw
\* pair: r is what FilterPair made of it.
FilterOutcome(v, r) ==
    [ok |-> r.ok, decoded |-> TRUE, oids |-> IF r.ok THEN r.oids ELSE <<>>,
     leaf_input |-> v.leaf_input, extra_data |-> v.extra_data]

FilterValue(v) ==
    IF ~v.ok
    THEN [ok |-> FALSE, decoded |-> FALSE, oids |-> <<>>,
          leaf_input |-> <<>>, extra_data |-> <<>>]
    ELSE FilterOutcome(v, FilterPair(v))

FilterEntry(db_value) == FilterValue(DecodeDbValue(db_value))

(***************************************************************************)
(* u64 arithmetic.  A u64 is written as the integer of small magnitude it  *)
(* is congruent to modulo 2^64: n >= 0 is n, and n < 0 is 2^64 + n, so -1  *)
(* is u64::MAX.  The values of the model stay near 0 and near 2^64, where  *)
(* no two u64 share a writing.  An operation that overflows panics in a    *)
(* build with overflow checks and wraps in a build without them.           *)
(***************************************************************************)
\* a < b and a <= b as u64 compare
ULt(a, b) == IF (a < 0) = (b < 0) THEN a < b ELSE b < 0

ULe(a, b) == a = b \/ ULt(a, b)

\* Ord::min on u64
UMin(a, b) == IF ULt(b, a) THEN b ELSE a

\* a + b and a - b modulo 2^64
WrappingAdd(a, b) == a + b

WrappingSub(a, b) == a - b

\* a + b is 2^64 or more; a - b is below 0.
AddOverflows(a, b) ==
    IF a < 0 /\ b < 0 THEN TRUE
    ELSE IF a < 0 \/ b < 0 THEN a + b >= 0
    ELSE FALSE

SubOverflows(a, b) == ULt(a, b)

(***************************************************************************)
(* main.rs: dl_range                                                       *)
(***************************************************************************)
STEP_SIZE == 30

\* let mut smallest_size = (op_end - op_start + 1).min(STEP_SIZE)
InitialOverflows(s, e) ==
    SubOverflows(e, s) \/ AddOverflows(WrappingSub(e, s), 1)

InitialSmallestSize(s, e) ==
    UMin(WrappingAdd(WrappingSub(e, s), 1), STEP_SIZE)

\* let end = op_end.min(start + smallest_size - 1), and the request sent
WindowOverflows ==
    \/ AddOverflows(start, smallest_size)
    \/ SubOverflows(WrappingAdd(start, smallest_size), 1)

DlRequest ==
    [start |-> start,
     end |-> UMin(op_end, WrappingSub(WrappingAdd(start, smallest_size), 1))]

\* smallest_size = STEP_SIZE.min(entries_len)
NextSmallestSize(entries_len) == UMin(STEP_SIZE, entries_len)

\* if entries_len == 0 { bail!(..) }
EmptyBatch(entries_len) == entries_len = 0

\* The state of dl_range before its loop, or its panic there.
DlEnter(s, e) ==
    /\ dl_err' = ""
    /\ op_start' = s
    /\ op_end' = e
    /\ start' = s
    /\ requests' = <<>>
    /\ batches' = <<>>
    /\ IF overflow_checks /\ InitialOverflows(s, e)
       THEN dl_pc' = "panic" /\ smallest_size' = 0
       ELSE dl_pc' = "loop" /\ smallest_size' = InitialSmallestSize(s, e)
    /\ UNCHANGED overflow_checks

\* while start < op_end
DlLooping == dl_pc = "loop" /\ ULt(start, op_end)

\* The iteration panics where it computes end, before it sends a request.
DlWindowPanic ==
    /\ DlLooping
    /\ overflow_checks /\ WindowOverflows
    /\ dl_pc' = "panic"
    /\ UNCHANGED <<dl_err, op_start, op_end, start, smallest_size, requests,
                   batches, overflow_checks>>

\* The iteration gets as far as its request.
DlRequesting == DlLooping /\ ~(overflow_checks /\ WindowOverflows)

\* One iteration whose request is answered with entries_len entries: the
\* sink f is called with (start, entries) and returns sink_ok; then the
\* empty batch is refused, or start and smallest_size move on.
DlIteration(entries_len, sink_ok) ==
    /\ DlRequesting
    /\ requests' = Append(requests, DlRequest)
    /\ batches' = Append(batches, [start |-> start, count |-> entries_len])
    /\ IF ~sink_ok
       THEN dl_pc' = "err" /\ dl_err' = "Sink" /\ UNCHANGED <<start, smallest_size>>
       ELSE IF EmptyBatch(entries_len)
       THEN dl_pc' = "err" /\ dl_err' = "EmptyBatch"
            /\ UNCHANGED <<start, smallest_size>>
       ELSE IF overflow_checks /\ AddOverflows(start, entries_len)
       THEN dl_pc' = "panic" /\ UNCHANGED <<dl_err, start, smallest_size>>
       ELSE /\ start' = WrappingAdd(start, entries_len)
            /\ smallest_size' = NextSmallestSize(entries_len)
            /\ UNCHANGED <<dl_pc, dl_err>>
    /\ UNCHANGED <<op_start, op_end, overflow_checks>>

\* One iteration whose request fails: send()? or json()? returns the error.
DlTransport ==
    /\ DlRequesting
    /\ requests' = Append(requests, DlRequest)
    /\ dl_pc' = "err"
    /\ dl_err' = "Transport"
    /\ UNCHANGED <<op_start, op_end, start, smallest_size, batches, overflow_checks>>

\* The loop's condition is false: Ok(()).
DlExit ==
    /\ dl_pc = "loop"
    /\ ~ULt(start, op_end)
    /\ dl_pc' = "ok"
    /\ UNCHANGED <<dl_err, op_start, op_end, start, smallest_size, requests,
                   batches, overflow_checks>>

\* dl_range is over: it returned, or the process panicked.
DlReturned == dl_pc \in {"ok", "err", "panic"}

(***************************************************************************)
(* Inputs of the pipeline: the entries a log serves                        *)
(***************************************************************************)
U16(n) == <<n \div 256, n % 256>>

Zeros(n) == [i \in 1..n |-> 0]

\* MerkleTreeLeaf: version, leaf_type, timestamp, entry_type, the signed
\* entry, and the (empty) CT extensions.
EncodeLeaf(version, entry_type, der) ==
    <<version, 0>> \o Zeros(8) \o U16(entry_type)
    \o (IF entry_type = 1 THEN Zeros(IssuerKeyHashLen) ELSE <<>>)
    \o U24(Len(der)) \o der \o U16(0)

V3Shape(exts) ==
    [version |-> TRUE, issuerUniqueID |-> FALSE, subjectUniqueID |-> FALSE,
     wrapper |-> TRUE, exts |-> exts]

NameConstraintsCert ==
    EncodeCert(V3Shape(<<[oid |-> OID_SUBJECT_ALT_NAME, critical |-> FALSE],
                         [oid |-> OID_NAME_CONSTRAINTS, critical |-> TRUE]>>))

PlainCert ==
    EncodeCert(V3Shape(<<[oid |-> OID_SUBJECT_ALT_NAME, critical |-> FALSE]>>))

NameConstraintsTbs ==
    EncodeTbs(V3Shape(<<[oid |-> OID_NAME_CONSTRAINTS, critical |-> TRUE]>>))

Base64(bytes) == [valid |-> TRUE, bytes |-> bytes]

CtEntry(leaf_input, extra_data) ==
    [leaf_input |-> Base64(leaf_input), extra_data |-> Base64(extra_data)]

\* extra_data as RFC 6962 frames it: a certificate_chain of one
\* certificate.
RfcChain == EncodeChain([certs |-> <<<<170>>>>, declared |-> 4, trailing |-> <<>>])

\* extra_data in the only framing read_log_entry reads to the end: a u16
\* entry type, an empty leaf and a chain of no certificates.
TypedChain == U16(0) \o U24(0) \o U24(0)

\* An X509 entry with nameConstraints, extra_data framed as the RFC says.
EntryRfc == CtEntry(EncodeLeaf(0, 0, NameConstraintsCert), RfcChain)

\* A pre-certificate entry with nameConstraints.
EntryPrecert == CtEntry(EncodeLeaf(0, 1, NameConstraintsTbs), TypedChain)

\* An X509 entry without nameConstraints.
EntryPlain == CtEntry(EncodeLeaf(0, 0, PlainCert), TypedChain)

\* An entry whose leaf has version 1, which parse_timestamped_entry refuses.
EntryBadLeaf == CtEntry(EncodeLeaf(1, 0, PlainCert), TypedChain)

Entries == {EntryRfc, EntryPrecert, EntryPlain, EntryBadLeaf}

LogLen == 3

Logs == [1..LogLen -> Entries]

\* Command-line indices: into the log and one past it.
Indices == 0..LogLen

\* The entries a get-entries response holds: n of them from index s on.
\* The server picks n: none, fewer or more than asked for, up to the end
\* of its log.
ServerEntries(s, n) == [k \in 1..n |-> log[s + k]]

ServerCounts(s) == IF s >= Len(log) THEN {0} ELSE 0..(Len(log) - s)

(***************************************************************************)
(* The states in which a part of the program is not running                *)
(***************************************************************************)
NoExtResult == [ok |-> FALSE, err |-> "", oids |-> <<>>]

NoCertShape ==
    [version |-> FALSE, issuerUniqueID |-> FALSE, subjectUniqueID |-> FALSE,
     wrapper |-> FALSE, exts |-> <<>>]

ExtIdle ==
    /\ ext_pc = "idle"
    /\ ext_in = NoCertShape
    /\ cert_der = <<>>
    /\ ext_res = NoExtResult

NoChainResult == [ok |-> FALSE, err |-> "", chain |-> <<>>]

NoChainShape == [certs |-> <<>>, declared |-> 0, trailing |-> <<>>]

ChainIdle ==
    /\ chain_pc = "idle"
    /\ chain_in = NoChainShape
    /\ chain_buf = <<>>
    /\ chain_res = NoChainResult

DlIdle ==
    /\ dl_pc = "idle"
    /\ dl_err = ""
    /\ op_start = 0
    /\ op_end = 0
    /\ start = 0
    /\ smallest_size = 0
    /\ requests = <<>>
    /\ batches = <<>>
    /\ overflow_checks = FALSE

NoRaw ==
    [found |-> FALSE, id |-> 0, decoded |-> FALSE, leaf_input |-> <<>>,
     extra_data |-> <<>>]

FilterIdle ==
    /\ f_pc = "idle"
    /\ f_err = ""
    /\ f_start = 0
    /\ f_end = 0
    /\ id = 0
    /\ f_reads = <<>>
    /\ f_raw = NoRaw
    /\ f_out = <<>>

MatchIdle ==
    /\ phase = 0
    /\ m_start = 0
    /\ m_end = 0
    /\ m_dl = [pc |-> "", batches |-> <<>>]

\* No subcommand has run yet: no database directory, nothing printed.
PipeIdle ==
    /\ cmd = "none"
    /\ db_exists = FALSE
    /\ db = <<>>
    /\ stored = <<>>
    /\ FilterIdle
    /\ s_out = <<>>

(***************************************************************************)
(* SpecChain: the chain decoders applied to every chain shape              *)
(***************************************************************************)
ChainResult(r) ==
    IF r.ok THEN [ok |-> TRUE, err |-> "", chain |-> r.chain]
    ELSE [ok |-> FALSE, err |-> r.err, chain |-> <<>>]

notChain == <<extVars, dlVars, pipeVars>>

InitChain ==
    /\ chain_pc = "input"
    /\ chain_in \in ChainShapes
    /\ chain_buf = <<>>
    /\ chain_res = NoChainResult
    /\ ExtIdle /\ DlIdle /\ PipeIdle /\ MatchIdle
    /\ log = <<>>

\* read_certificate_chain on a certificate_chain.
ReadCertificateChain ==
    /\ chain_pc = "input"
    /\ chain_buf' = EncodeChain(chain_in)
    /\ chain_res' = ChainResult(read_certificate_chain(chain_buf', 0))
    /\ chain_pc' = "chain"
    /\ UNCHANGED <<chain_in, notChain>>

\* read_precert_chain_entry on a precert_chain_entry.
ReadPrecertChainEntry ==
    /\ chain_pc = "input"
    /\ chain_buf' = U24(Len(PreCertDer)) \o PreCertDer \o EncodeChain(chain_in)
    /\ chain_res' = ChainResult(read_precert_chain_entry(chain_buf'))
    /\ chain_pc' = "precert_chain"
    /\ UNCHANGED <<chain_in, notChain>>

\* read_log_entry on the extra_data of an X509 entry, as Filter calls it.
ReadLogEntry ==
    /\ chain_pc = "input"
    /\ chain_buf' = EncodeChain(chain_in)
    /\ chain_res' = ChainResult(read_log_entry(chain_buf'))
    /\ chain_pc' = "log_entry"
    /\ UNCHANGED <<chain_in, notChain>>

NextChain == ReadCertificateChain \/ ReadPrecertChainEntry \/ ReadLogEntry

SpecChain == InitChain /\ [][NextChain]_vars

ChainDone == chain_pc \in {"chain", "precert_chain", "log_entry"}

(***************************************************************************)
(* SpecExt: the extractor applied to every certificate shape               *)
(***************************************************************************)
notExt == <<chainVars, dlVars, pipeVars>>

InitExt ==
    /\ ext_pc = "input"
    /\ ext_in \in CertShapes
    /\ cert_der = <<>>
    /\ ext_res = NoExtResult
    /\ ChainIdle /\ DlIdle /\ PipeIdle /\ MatchIdle
    /\ log = <<>>

ListCertExtensionsDer ==
    /\ ext_pc = "input"
    /\ cert_der' = EncodeCert(ext_in)
    /\ ext_res' = list_cert_extensions_der(cert_der')
    /\ ext_pc' = "cert"
    /\ UNCHANGED <<ext_in, notExt>>

ListPreCertExtensionsDer ==
    /\ ext_pc = "input"
    /\ cert_der' = EncodeTbs(ext_in)
    /\ ext_res' = list_pre_cert_extensions_der(cert_der')
    /\ ext_pc' = "precert"
    /\ UNCHANGED <<ext_in, notExt>>

NextExt == ListCertExtensionsDer \/ ListPreCertExtensionsDer

SpecExt == InitExt /\ [][NextExt]_vars

ExtDone == ext_pc \in {"cert", "precert"}

(***************************************************************************)
(* SpecDl: dl_range against any server and any sink                        *)
(***************************************************************************)
MaxStart == 1
MaxEnd == 61

\* The arguments: indices from 0 on, and the MaxTop indices below 2^64.
MaxTop == 2

DlStarts == (0..MaxStart) \cup ((0 - MaxTop)..(0 - 1))

DlEnds == (0..MaxEnd) \cup ((0 - MaxTop)..(0 - 1))

\* The sizes of the responses: empty, one entry, a full step, and one more
\* than any request asks for.
ResponseLens == {0, 1, STEP_SIZE, STEP_SIZE + 1}

\* A run towards the top of u64 is followed as far as index MaxEnd.
DlBounded == start < MaxEnd

notDl == <<extVars, chainVars, pipeVars>>

InitDl ==
    /\ overflow_checks \in BOOLEAN
    /\ \E s \in DlStarts : \E e \in DlEnds :
        /\ ULe(s, e)
        /\ dl_pc = IF overflow_checks /\ InitialOverflows(s, e) THEN "panic" ELSE "loop"
        /\ dl_err = ""
        /\ op_start = s
        /\ op_end = e
        /\ start = s
        /\ smallest_size = IF overflow_checks /\ InitialOverflows(s, e) THEN 0
                           ELSE InitialSmallestSize(s, e)
        /\ requests = <<>>
        /\ batches = <<>>
    /\ ExtIdle /\ ChainIdle /\ PipeIdle /\ MatchIdle
    /\ log = <<>>

DlRangeBatch ==
    /\ DlBounded
    /\ \E entries_len \in ResponseLens : \E sink_ok \in BOOLEAN :
        DlIteration(entries_len, sink_ok)
    /\ UNCHANGED notDl

DlRangeTransport == DlBounded /\ DlTransport /\ UNCHANGED notDl

DlRangePanic == DlWindowPanic /\ UNCHANGED notDl

DlRangeExit == DlExit /\ UNCHANGED notDl

NextDl == DlRangeBatch \/ DlRangeTransport \/ DlRangePanic \/ DlRangeExit

SpecDl == InitDl /\ [][NextDl]_vars

(***************************************************************************)
(* The subcommands Dl, Filter and Scan                                     *)
(***************************************************************************)
\* No subcommand is running: none has been started, or the last returned.
CmdReturned ==
    \/ cmd = "none"
    \/ cmd \in {"dl", "scan"} /\ DlReturned
    \/ cmd = "filter" /\ f_pc \in {"ok", "err"}

\* dl_range is not called, or not yet.
DlUnused ==
    /\ op_start' = 0 /\ op_end' = 0 /\ start' = 0 /\ smallest_size' = 0
    /\ requests' = <<>> /\ batches' = <<>>
    /\ UNCHANGED overflow_checks

FilterUnused ==
    /\ f_pc' = "idle" /\ f_err' = "" /\ f_start' = 0 /\ f_end' = 0 /\ id' = 0
    /\ f_reads' = <<>> /\ f_raw' = NoRaw /\ f_out' = <<>>

\* SubCommand::Dl up to the call of dl_range: get_matching_log finds the
\* log of the URL or fails (found), then DB::open with create_if_missing
\* creates the database.
StartDl(s, e, found) ==
    /\ CmdReturned
    /\ cmd' = "dl"
    /\ IF found
       THEN db_exists' = TRUE /\ DlEnter(s, e)
       ELSE dl_pc' = "err" /\ dl_err' = "Log" /\ DlUnused /\ UNCHANGED db_exists
    /\ FilterUnused
    /\ s_out' = <<>>
    /\ UNCHANGED <<log, db, stored, extVars, chainVars>>

\* One iteration of dl_range under Dl: the batch goes to the database.
DlStore(n, sink) ==
    /\ DlIteration(n, sink.ok)
    /\ db' = sink.db
    /\ stored' = sink.stored

DlBatch ==
    /\ cmd = "dl"
    /\ \E n \in ServerCounts(start) :
        DlStore(n, DlSink(db, stored, start, ServerEntries(start, n)))
    /\ UNCHANGED <<cmd, log, db_exists, filterVars, s_out, matchVars, extVars, chainVars>>

\* SubCommand::Scan up to the call of dl_range; start > end is refused.
StartScan(s, e) ==
    /\ CmdReturned
    /\ cmd' = "scan"
    /\ IF s > e
       THEN dl_pc' = "err" /\ dl_err' = "StartAfterEnd" /\ DlUnused
       ELSE DlEnter(s, e)
    /\ s_out' = <<>>
    /\ UNCHANGED <<log, cacheVars, filterVars, extVars, chainVars>>

\* One iteration of dl_range under Scan: the batch is matched and printed.
ScanPrint(n, sink) ==
    /\ DlIteration(n, sink.ok)
    /\ s_out' = sink.out

ScanBatch ==
    /\ cmd = "scan"
    /\ \E n \in ServerCounts(start) :
        ScanPrint(n, ScanSink(s_out, start, ServerEntries(start, n)))
    /\ UNCHANGED <<cmd, log, cacheVars, filterVars, matchVars, extVars, chainVars>>

\* The request of Dl or Scan fails.
CmdTransport ==
    /\ cmd \in {"dl", "scan"}
    /\ DlTransport
    /\ UNCHANGED <<pipeVars, extVars, chainVars>>

\* dl_range returns Ok(()) to Dl or Scan.
CmdDlExit ==
    /\ cmd \in {"dl", "scan"}
    /\ DlExit
    /\ UNCHANGED <<pipeVars, extVars, chainVars>>

\* SubCommand::Filter up to its loop: get_matching_log finds the log of
\* the URL or fails (found), then DB::open_default fails when Dl never
\* created the database.
StartFilter(s, e, found) ==
    /\ CmdReturned
    /\ cmd' = "filter"
    /\ f_start' = s
    /\ f_end' = e
    /\ id' = s
    /\ f_reads' = <<>>
    /\ f_raw' = NoRaw
    /\ f_out' = <<>>
    /\ IF ~found THEN f_pc' = "err" /\ f_err' = "Log"
       ELSE IF ~db_exists THEN f_pc' = "err" /\ f_err' = "Open"
       ELSE f_pc' = "loop" /\ f_err' = ""
    /\ dl_pc' = "idle" /\ dl_err' = "" /\ DlUnused
    /\ s_out' = <<>>
    /\ UNCHANGED <<log, cacheVars, extVars, chainVars>>

\* for id in opts.start ..= opts.end
FilterLooping == cmd = "filter" /\ f_pc = "loop" /\ id <= f_end

notFilter == <<cmd, log, cacheVars, s_out, matchVars, dlVars, extVars, chainVars>>

\* db.get gives None: the advisory line, and break.
FilterMissingContinues ==
    /\ FilterLooping
    /\ DbKey(id) \notin DOMAIN db
    /\ f_reads' = Append(f_reads, id)
    /\ f_out' = Append(f_out, [kind |-> "missing", id |-> id])
    /\ id' = id + 1
    /\ UNCHANGED <<f_pc, f_err, f_start, f_end, f_raw, notFilter>>

FilterMissing ==
    /\ FilterLooping
    /\ DbKey(id) \notin DOMAIN db
    /\ f_reads' = Append(f_reads, id)
    /\ f_out' = Append(f_out, [kind |-> "missing", id |-> id])
    /\ f_pc' = "ok"
    /\ UNCHANGED <<f_err, f_start, f_end, id, f_raw, notFilter>>

\* db.get gives Some(v): decode, parse, extract, match.
FilterProcess(r) ==
    /\ f_reads' = Append(f_reads, id)
    /\ f_raw' = [found |-> TRUE, id |-> id, decoded |-> r.decoded,
                 leaf_input |-> r.leaf_input, extra_data |-> r.extra_data]
    /\ IF r.ok
       THEN /\ f_out' = f_out \o MatchOutput(id, r.oids)
            /\ id' = id + 1
            /\ UNCHANGED <<f_pc, f_err>>
       ELSE /\ f_pc' = "err"
            /\ f_err' = "Entry"
            /\ UNCHANGED <<f_out, id>>

FilterFound ==
    /\ FilterLooping
    /\ DbKey(id) \in DOMAIN db
    /\ FilterProcess(FilterEntry(db[DbKey(id)]))
    /\ UNCHANGED <<f_start, f_end, notFilter>>

\* The range is exhausted: Ok(()).
FilterExit ==
    /\ cmd = "filter"
    /\ f_pc = "loop"
    /\ id > f_end
    /\ f_pc' = "ok"
    /\ UNCHANGED <<f_err, f_start, f_end, id, f_reads, f_raw, f_out, notFilter>>

FilterReturned == cmd = "filter" /\ f_pc \in {"ok", "err"}

\* main returns, or the panic unwinds: the process is over, and of what
\* it did the database is left.
CmdExit ==
    /\ cmd # "none"
    /\ CmdReturned
    /\ cmd' = "none"
    /\ dl_pc' = "idle" /\ dl_err' = "" /\ DlUnused
    /\ FilterUnused
    /\ s_out' = <<>>
    /\ UNCHANGED <<log, cacheVars, matchVars, extVars, chainVars>>

(***************************************************************************)
(* SpecCache: Dl and Filter run, in any order and over any ranges, on one  *)
(* database                                                                *)
(***************************************************************************)
InitCache ==
    /\ log \in Logs
    /\ PipeIdle /\ DlIdle /\ MatchIdle /\ ExtIdle /\ ChainIdle

\* A process is started when the one before it is over.
CacheDl ==
    /\ cmd = "none"
    /\ \E s \in Indices : \E e \in Indices : \E found \in BOOLEAN :
        s <= e /\ StartDl(s, e, found) /\ UNCHANGED matchVars

CacheFilter ==
    /\ cmd = "none"
    /\ \E s \in Indices : \E e \in Indices : \E found \in BOOLEAN :
        StartFilter(s, e, found) /\ UNCHANGED matchVars

NextCache ==
    \/ CacheDl
    \/ DlBatch
    \/ CmdTransport
    \/ CmdDlExit
    \/ CacheFilter
    \/ FilterMissing
    \/ FilterFound
    \/ FilterExit
    \/ CmdExit

SpecCache == InitCache /\ [][NextCache]_vars

(***************************************************************************)
(* SpecMatch: Dl, then Filter, then Scan, over one range of one log        *)
(***************************************************************************)
InitMatch ==
    /\ log \in Logs
    /\ \E s \in Indices : \E e \in Indices :
        s <= e /\ m_start = s /\ m_end = e
    /\ phase = 0
    /\ m_dl = [pc |-> "", batches |-> <<>>]
    /\ PipeIdle /\ DlIdle /\ ExtIdle /\ ChainIdle

MatchDl ==
    /\ phase = 0
    /\ \E found \in BOOLEAN : StartDl(m_start, m_end, found)
    /\ phase' = 1
    /\ UNCHANGED <<m_start, m_end, m_dl>>

MatchFilter ==
    /\ phase = 1
    /\ \E found \in BOOLEAN : StartFilter(m_start, m_end, found)
    /\ phase' = 2
    /\ m_dl' = [pc |-> dl_pc, batches |-> batches]
    /\ UNCHANGED <<m_start, m_end>>

MatchScan ==
    /\ phase = 2
    /\ StartScan(m_start, m_end)
    /\ phase' = 3
    /\ UNCHANGED <<m_start, m_end, m_dl>>

NextMatch ==
    \/ MatchDl
    \/ DlBatch
    \/ CmdTransport
    \/ CmdDlExit
    \/ MatchFilter
    \/ FilterMissing
    \/ FilterFound
    \/ FilterExit
    \/ MatchScan
    \/ ScanBatch

SpecMatch == InitMatch /\ [][NextMatch]_vars

MatchDone == phase = 3 /\ cmd = "scan" /\ DlReturned

(***************************************************************************)
(* Properties of dl_range (SpecDl)                                         *)
(***************************************************************************)
RECURSIVE SumCounts(_, _)
SumCounts(bs, n) == IF n = 0 THEN 0 ELSE SumCounts(bs, n - 1) + bs[n].count

\* u = base + n as numbers, without wrapping: n is small, so the two are
\* on the same side of 2^64.
IsOffset(u, base, n) == u = base + n /\ (u < 0) = (base < 0)

\* The number of indices of [a, b] is at most n.
WindowAtMost(a, b, n) == (a < 0) = (b < 0) /\ b - a + 1 <= n

\* C1: when dl_range returns Ok against a server that never answers with
\* an empty batch, the batches given to the sink start at op_start, each
\* starts where the one before ended, and the last index they cover is
\* op_end or beyond it.
C1_BatchMonotonicity ==
    dl_pc = "ok" =>
        /\ batches # <<>>
        /\ \A k \in DOMAIN batches :
            /\ batches[k].count >= 1
            /\ IsOffset(batches[k].start, op_start, SumCounts(batches, k - 1))
        /\ ULe(op_end, start - 1)
        /\ IsOffset(start, op_start, SumCounts(batches, Len(batches)))

\* The server of scenario S5 answers 30, 30, and then 0 entries.
S5Response(k) == IF k <= 2 THEN STEP_SIZE ELSE 0

\* dl_range has returned from a run against the S5 server with a sink that
\* accepts every batch.
S5Run ==
    /\ dl_pc \in {"ok", "err"}
    /\ dl_err \notin {"Transport", "Sink"}
    /\ \A k \in DOMAIN batches : batches[k].count = S5Response(k)

\* C2: against the S5 server dl_range over [0,59] returns Ok after exactly
\* two requests, and dl_range over [0,60] sends a third request, gets no
\* entries and fails with EmptyBatch.
C2_EmptyBatchScenario ==
    /\ S5Run /\ op_start = 0 /\ op_end = 59 =>
        dl_pc = "ok" /\ Len(requests) = 2
    /\ S5Run /\ op_start = 0 /\ op_end = 60 =>
        dl_pc = "err" /\ dl_err = "EmptyBatch" /\ Len(requests) = 3

\* C9: dl_range sends at most op_end - op_start requests, the start
\* indices of its requests strictly increase, and after every iteration
\* that does not return an error the current index is beyond the index
\* the iteration requested.
C9_ForwardProgress ==
    /\ (op_start < 0) = (op_end < 0) => Len(requests) <= op_end - op_start
    /\ \A j \in DOMAIN requests : \A k \in DOMAIN requests :
        j < k => ULt(requests[j].start, requests[k].start)
    /\ dl_pc \in {"loop", "ok"} /\ requests # <<>> =>
        ULt(requests[Len(requests)].start, start)

\* C10: the batch hint is in 1..30, and every request (S, E) has
\* op_start <= S <= E <= op_end and at most 30 indices, S being op_start
\* plus the number of entries received before.
C10_RequestWindow ==
    /\ dl_pc \in {"loop", "ok", "err"} => smallest_size \in 1..STEP_SIZE
    /\ \A k \in DOMAIN requests :
        /\ ULe(op_start, requests[k].start)
        /\ ULe(requests[k].start, requests[k].end)
        /\ ULe(requests[k].end, op_end)
        /\ WindowAtMost(requests[k].start, requests[k].end, STEP_SIZE)
        /\ IsOffset(requests[k].start, op_start, SumCounts(batches, k - 1))

(***************************************************************************)
(* Properties of the extension extractor (SpecExt)                         *)
(***************************************************************************)
\* C6: both extractors return the extnID of every Extension of the [3]
\* wrapper, in the encoded order, and the empty list when the certificate
\* has no [3] wrapper.
C6_ExtensionOidsInOrder ==
    ExtDone => ext_res.ok /\ ext_res.oids = ExtnIds(ext_in)

\* C7: when issuerUniqueID or subjectUniqueID follows subjectPublicKeyInfo
\* both extractors succeed, skip those fields, and return the OIDs of the
\* [3] wrapper that follows, or the empty list when none follows.
C7_UniqueIdTolerance ==
    ExtDone /\ (ext_in.issuerUniqueID \/ ext_in.subjectUniqueID) =>
        ext_res.ok /\ ext_res.oids = ExtnIds(ext_in)

(***************************************************************************)
(* Properties of the chain decoders (SpecChain)                            *)
(***************************************************************************)
\* C8: chain_len is the byte length of the (cert_len, cert) items: a chain
\* whose items end exactly there decodes to its certificates, in order,
\* whatever follows the chain in the buffer; any other chain is refused.
C8_ChainDeclaredLength ==
    ChainDone =>
        IF ChainWellFormed(chain_in)
        THEN chain_res.ok /\ chain_res.chain = chain_in.certs
        ELSE ~chain_res.ok

(***************************************************************************)
(* Properties of the subcommands (SpecMatch, SpecCache)                    *)
(***************************************************************************)
\* The indices of the entries a match was printed for.
MatchedIds(out) == {out[k].id : k \in {j \in DOMAIN out : out[j].kind = "match"}}

\* C3: after Dl, Filter and Scan over one range of one log, Dl and Scan
\* having returned Ok from the same responses, Filter has returned Ok too
\* and printed matches for the indices Scan printed matches for.
C3_MatchDeterminism ==
    MatchDone /\ m_dl.pc = "ok" /\ dl_pc = "ok" /\ batches = m_dl.batches =>
        f_pc = "ok" /\ MatchedIds(f_out) = MatchedIds(s_out)

\* Filter has returned from a run that opened the database, in which some
\* index of its range is absent.
FilterGaps == {i \in f_start..f_end : DbKey(i) \notin DOMAIN db}

FirstGap == CHOOSE i \in FilterGaps : \A j \in FilterGaps : i <= j

FilterMetGap ==
    FilterReturned /\ f_err \notin {"Log", "Open"} /\ FilterGaps # {}

\* The indices a..b in order, and the match lines of their cached entries.
Visits(a, b) == [k \in 1..(b - a + 1) |-> a + k - 1]

RECURSIVE MatchesOf(_, _)
MatchesOf(a, b) ==
    IF a > b THEN <<>>
    ELSE MatchesOf(a, b - 1) \o MatchOutput(b, FilterEntry(db[DbKey(b)]).oids)

Advisory(i) == <<[kind |-> "missing", id |-> i]>>

\* The cached entries below index i that Filter fails on.
FailsBelow(i) == {j \in f_start..(i - 1) : ~FilterEntry(db[DbKey(j)]).ok}

Minimum(S) == CHOOSE j \in S : \A k \in S : j <= k

\* Filter returned Ok at the gap i: it read the indices up to i in order,
\* printed the matches of the entries below i and then the advisory for i.
StoppedAtGap(i) ==
    /\ f_pc = "ok"
    /\ f_reads = Visits(f_start, i)
    /\ f_out = MatchesOf(f_start, i - 1) \o Advisory(i)

\* Filter returned the error of the entry j: it read the indices up to j
\* in order and printed the matches of the entries below j.
StoppedAtError(j) ==
    /\ f_pc = "err"
    /\ f_reads = Visits(f_start, j)
    /\ f_out = MatchesOf(f_start, j - 1)

StoppedAtGapOrError(i, fails) ==
    IF fails = {} THEN StoppedAtGap(i) ELSE StoppedAtError(Minimum(fails))

\* C4 as stated: Filter reads the indices up to the first gap i in order,
\* has printed the matches of the entries below i, prints the advisory for
\* i once, reads and prints nothing further, and returns Ok.
C4_HaltsAtFirstGap == FilterMetGap => StoppedAtGap(FirstGap)

\* C4 amended: Filter reads its indices in increasing order; when every
\* cached entry below the first gap i decodes, it does as C4 states; when
\* not, it returns the error of the first entry j < i that does not,
\* having read the indices up to j and printed the matches below j, and
\* no advisory.
C4_HaltsAtFirstGapOrError ==
    /\ cmd = "filter" => f_reads = Visits(f_start, f_start + Len(f_reads) - 1)
    /\ FilterMetGap => StoppedAtGapOrError(FirstGap, FailsBelow(FirstGap))

\* Filter stopped at a gap inside its range, after a match, with a cached
\* entry beyond the gap.
C4_Witness ==
    /\ FilterMetGap
    /\ f_pc = "ok"
    /\ FirstGap > f_start
    /\ FirstGap < f_end
    /\ DbKey(FirstGap + 1) \in DOMAIN db
    /\ MatchedIds(f_out) # {}
    /\ f_out[Len(f_out)] = [kind |-> "missing", id |-> FirstGap]

\* C5: every index Dl stored a pair at has its key in the database, and
\* whenever Filter finds a value under the key of an index it decodes it,
\* to the very bytes of the pair Dl stored at that index last, whatever
\* was stored at other indices since.
C5_CacheRoundTrip ==
    /\ \A i \in DOMAIN stored : DbKey(i) \in DOMAIN db
    /\ f_raw.found =>
        /\ f_raw.decoded
        /\ f_raw.id \in DOMAIN stored
        /\ [leaf_input |-> f_raw.leaf_input, extra_data |-> f_raw.extra_data]
            = stored[f_raw.id]

\* Filter decoded the entry of an index that Dl stored, with another pair
\* stored at another index.
C5_Witness ==
    /\ cmd = "filter"
    /\ f_raw.found /\ f_raw.decoded
    /\ \E j \in DOMAIN stored :
        /\ j # f_raw.id
        /\ stored[j] # stored[f_raw.id]
        /\ [leaf_input |-> f_raw.leaf_input, extra_data |-> f_raw.extra_data]
            = stored[f_raw.id]

====
